---- MODULE Spec2Model ----
(***************************************************************************)
(* Model of auto-a11y: the resolution ladder of A11yAILocator.locate       *)
(* (snapshot cache, primary attempt raced against a timer, degraded        *)
(* attempt, literal fallback) and the plan/retry loop of AIAgent.execute.  *)
(***************************************************************************)
EXTENDS Integers, Sequences, FiniteSets, TLC

(***************************************************************************)
(* Bounds of the model                                                     *)
(***************************************************************************)
\* number of top-level locate/execute calls made on one instance
MaxCalls == 2
\* execute is called with maxRetries in -1 .. MaxRetriesBound
MaxRetriesBound == 1
\* backend calls left running after a lost race, still not settled
MaxAbandoned == 1

(***************************************************************************)
(* JavaScript / JSON values, tagged by type                                *)
(***************************************************************************)
JUndef == [t |-> "undef"]
JNull == [t |-> "null"]
JStr(s) == [t |-> "str", v |-> s]
JNum(n) == [t |-> "num", v |-> n]
JBool(b) == [t |-> "bool", v |-> b]
JArr(a) == [t |-> "arr", v |-> a]
JObj(o) == [t |-> "obj", v |-> o]

\* o[k] of JavaScript for an own data property; the caller has checked that o
\* is neither null nor undefined
Get(o, k) ==
  IF o.t = "obj" /\ k \in DOMAIN o.v THEN o.v[k] ELSE JUndef

\* the properties every object inherits from Object.prototype, as far as
\* the descriptions asked for name them
ObjectPrototypeKeys == {"constructor", "toString"}
JFn(name) == [t |-> "fn", v |-> name]

\* o[k] of JavaScript on an object made by JSON.parse or by {}: an own
\* property, or else the function inherited under that name
GetInherited(o, k) ==
  IF o.t = "obj" /\ k \in DOMAIN o.v THEN o.v[k]
  ELSE IF o.t = "obj" /\ k \in ObjectPrototypeKeys THEN JFn(k)
  ELSE JUndef

\* JavaScript truthiness
Truthy(v) ==
  CASE v.t \in {"undef", "null"} -> FALSE
    [] v.t = "str" -> v.v # ""
    [] v.t = "num" -> v.v # 0
    [] v.t = "bool" -> v.v
    [] OTHER -> TRUE

\* String(v) as used for property keys and in template strings
ToJSString(v) ==
  CASE v.t = "str" -> v.v
    [] v.t = "undef" -> "undefined"
    [] v.t = "null" -> "null"
    [] v.t = "num" -> ToString(v.v)
    [] v.t = "bool" -> IF v.v THEN "true" ELSE "false"
    [] OTHER -> "[object Object]"

\* an Error object: its class name and the pieces of its message
Err(name, msg) == [name |-> name, msg |-> msg]
\* `${error}`: the class name followed by the message
ErrText(e) == <<e.name>> \o e.msg
NoError == Err("none", <<>>)
\* the value null where an error is expected (let lastError = null)
NullValue == Err("null", <<>>)

(***************************************************************************)
(* Texts: what a backend answers and what the cache file holds.  A text is *)
(* either the serialisation of a JSON value or a string that is no JSON.   *)
(***************************************************************************)
RawText(s) == [t |-> "raw", s |-> s]

\* JSON.stringify drops the properties of an object whose value is undefined
RECURSIVE DropUndefined(_)
DropUndefined(v) ==
  CASE v.t = "obj" ->
         LET keep == {k \in DOMAIN v.v : v.v[k].t # "undef"}
         IN JObj([k \in keep |-> DropUndefined(v.v[k])])
    [] v.t = "arr" ->
         JArr([i \in DOMAIN v.v |->
                 IF v.v[i].t = "undef" THEN JNull ELSE DropUndefined(v.v[i])])
    [] OTHER -> v

JSONStringify(v) == [t |-> "json", v |-> DropUndefined(v)]

\* JSON.parse: the value, or a SyntaxError for a text that is no JSON
JSONParse(text) ==
  IF text.t = "json"
  THEN [ok |-> TRUE, val |-> text.v, err |-> NoError]
  ELSE [ok |-> FALSE, val |-> JUndef,
        err |-> Err("SyntaxError", <<"Unexpected token", text.s>>)]

(***************************************************************************)
(* Query Model                                                             *)
(***************************************************************************)
\* the enumeration of LocatorQuerySchema.query
QueryKinds ==
  {"getByRole", "getByLabelText", "getByPlaceholderText", "getByAltText",
   "getByText", "getByTestId"}

Query(kind, params) == JObj([query |-> JStr(kind), params |-> JArr(params)])

IsStringArray(v) ==
  /\ v.t = "arr"
  /\ \A i \in DOMAIN v.v : v.v[i].t = "str"

\* LocatorQuerySchema.parse: the object reduced to {query, params}, or a
\* ZodError
LocatorQuerySchemaParse(v) ==
  LET q == Get(v, "query")
      ps == Get(v, "params")
      valid == /\ v.t = "obj"
               /\ q.t = "str"
               /\ q.v \in QueryKinds
               /\ IsStringArray(ps)
               /\ Len(ps.v) >= 1
  IN IF valid
     THEN [ok |-> TRUE, val |-> JObj([query |-> q, params |-> ps]),
           err |-> NoError]
     ELSE [ok |-> FALSE, val |-> JUndef,
           err |-> Err("ZodError", <<"invalid locator query">>)]

(***************************************************************************)
(* Automation engine: locators and the pages they are counted on           *)
(***************************************************************************)
NoOpt == [k |-> "none", v |-> JUndef]
NameOpt(n) == [k |-> "name", v |-> n]
InexactOpt == [k |-> "exact", v |-> JBool(FALSE)]

\* a reference made by page.getByX(arg, opt); sel is the .nth()/.last()
\* applied to it
AllMatches == [k |-> "all", n |-> 0]
Locator(m, arg, opt) == [m |-> m, arg |-> arg, opt |-> opt, sel |-> AllMatches]
NoLocator == Locator("none", JUndef, NoOpt)

\* a toLowerCase that leaves its argument as it is
ToLowerCaseIdentity(s) == s

\* String.prototype.toLowerCase on the query names that occur
ToLowerCase(s) ==
  CASE s = "getByRole" -> "getbyrole"
    [] s = "getByLabelText" -> "getbylabeltext"
    [] s = "getByPlaceholderText" -> "getbyplaceholdertext"
    [] s = "getByAltText" -> "getbyalttext"
    [] s = "getByText" -> "getbytext"
    [] s = "getByTestId" -> "getbytestid"
    [] s = "GETBYTEXT" -> "getbytext"
    [] OTHER -> s

\* a[i] of JavaScript, zero-based
ElemAt(a, i) ==
  IF a.t = "arr" /\ i + 1 \in DOMAIN a.v THEN a.v[i + 1] ELSE JUndef

TypeErr(what) == Err("TypeError", <<"Cannot read properties of", what>>)

\* A11yAILocator.executeTestingLibraryQuery: the locator, or the TypeError
\* of reading query.query.toLowerCase / query.params[0] on a missing value
ExecuteTestingLibraryQuery(query) ==
  LET q == Get(query, "query")
      ps == Get(query, "params")
      lower == ToLowerCase(q.v)
      p0 == ElemAt(ps, 0)
      ok(loc) == [ok |-> TRUE, loc |-> loc, err |-> NoError]
      bad(what) == [ok |-> FALSE, loc |-> NoLocator, err |-> TypeErr(what)]
  IN IF q.t # "str" THEN bad("toLowerCase")
     ELSE IF ps.t \in {"undef", "null"} THEN bad("params")
     ELSE CASE lower = "getbyrole" ->
                 IF ps.t = "arr" /\ Len(ps.v) > 1
                 THEN ok(Locator("getByRole", p0, NameOpt(ElemAt(ps, 1))))
                 ELSE ok(Locator("getByRole", p0, NoOpt))
            [] lower = "getbytext" -> ok(Locator("getByText", p0, InexactOpt))
            [] lower = "getbylabeltext" -> ok(Locator("getByLabel", p0, NoOpt))
            [] lower = "getbyplaceholdertext" ->
                 ok(Locator("getByPlaceholder", p0, NoOpt))
            [] lower = "getbytestid" -> ok(Locator("getByTestId", p0, NoOpt))
            [] lower = "getbyalttext" -> ok(Locator("getByAltText", p0, NoOpt))
            [] OTHER -> ok(Locator("getByText", p0, NoOpt))

\* the last resort of locate: page.getByText(description, {exact: false})
TextFallback(description) == Locator("getByText", description, InexactOpt)

\* the documents the page can show; page.content() returns Html(page).  A
\* closed page makes every awaited engine call throw.
Pages == {"pageA", "pageB", "pageShell"}
PageStates == Pages \cup {"closed"}
EngineError == Err("Error", <<"Target page has been closed">>)
\* the body of an application that has not rendered yet
ShellHtml == "<body> <div id='root'></div> </body>"
Html(p) ==
  CASE p = "pageA" -> "<button>Submit</button>"
    [] p = "pageShell" -> ShellHtml
    [] OTHER -> "<p>Nothing</p>"

\* locator.count(): pageA holds one button named Submit, pageB no match
Count(p, loc) ==
  IF /\ p = "pageA"
     /\ loc.sel.k = "nth" => loc.sel.n = 0
     /\ \/ loc.m = "getByRole" /\ loc.arg = JStr("button")
              /\ (loc.opt = NoOpt \/ loc.opt = NameOpt(JStr("Submit")))
        \/ loc.m = "getByText" /\ loc.arg = JStr("Submit")
  THEN 1
  ELSE 0

(***************************************************************************)
(* Snapshot cache file                                                     *)
(***************************************************************************)
EmptyObject == JObj([k \in {} |-> JNull])

\* the file at snapshotFilePath: whether it exists, whether it can be read,
\* and its content
File(exists, readable, text) ==
  [exists |-> exists, readable |-> readable, text |-> text]
AbsentFile == File(FALSE, TRUE, RawText(""))

\* SnapshotManager.readSnapshots: the parsed content; {} when the file is
\* absent or when reading or parsing throws
ReadSnapshots(f) ==
  IF ~f.exists THEN EmptyObject
  ELSE IF ~f.readable THEN EmptyObject
  ELSE LET r == JSONParse(f.text)
       IN IF r.ok THEN r.val ELSE EmptyObject

\* an assignment that leaves a property that is already there as it is
SetPropKeepingOld(o, k, v) ==
  JObj([x \in (DOMAIN o.v) \cup {k} |-> IF x \in DOMAIN o.v THEN o.v[x] ELSE v])

\* snapshots[description] = queryInfo
SetProp(o, k, v) ==
  JObj([x \in (DOMAIN o.v) \cup {k} |-> IF x = k THEN v ELSE o.v[x]])

\* the outcomes of the file system calls of saveSnapshot
WriteOutcomes == {"ok", "failed"}

\* the try block of saveSnapshot reaches its end: no file system call
\* throws, and snapshots[description] = queryInfo does not throw, as it does
\* on null
SaveCompletes(snapshots, outcome) ==
  /\ outcome = "ok"
  /\ snapshots.t \notin {"null", "undef"}

\* a write-back that reads the file again and merges its entry into it
WriteBackMerging(f, snapshots, description, queryInfo, outcome) ==
  IF ~SaveCompletes(snapshots, outcome) THEN f
  ELSE File(TRUE, f.readable,
            JSONStringify(SetProp(ReadSnapshots(f), ToJSString(description),
                                  queryInfo)))

\* lines 89-94 of saveSnapshot: the entry is set in the mapping that was
\* read, and the whole mapping replaces the content of the file; an
\* exception leaves the file as it is
WriteBack(f, snapshots, description, queryInfo, outcome) ==
  IF ~SaveCompletes(snapshots, outcome) THEN f
  ELSE File(TRUE, f.readable,
            JSONStringify(SetProp(snapshots, ToJSString(description),
                                  queryInfo)))

\* a saveSnapshot that returns before it writes
SaveSnapshotSkipped(f, description, queryInfo, outcome) == f

\* SnapshotManager.saveSnapshot in one process: the file afterwards.  Every
\* exception (mkdir, assignment into null, write) is caught and logged.
SaveSnapshot(f, description, queryInfo, outcome) ==
  WriteBack(f, ReadSnapshots(f), description, queryInfo, outcome)

(***************************************************************************)
(* Document representations and prompts                                    *)
(***************************************************************************)
\* extractBodyContent(html, description): the extraction keeps the elements
\* whose text holds a word of the description; when description is not a
\* string, description.toLowerCase() throws inside the try and the catch
\* returns the html itself.  Empty containers are removed (line 32) and the
\* result is trimmed (line 106): a body left with white space only gives the
\* empty string.
ExtractBodyContent(html, description) ==
  IF description.t # "str"
    THEN [t |-> "body", how |-> "raw", html |-> html, focus |-> ""]
  ELSE IF html = ShellHtml THEN JStr("")
  ELSE [t |-> "body", how |-> "extracted", html |-> html,
        focus |-> description.v]

\* simplifyHtml(html): the aggressive simplification of the whole document
SimplifyHtml(html) ==
  [t |-> "body", how |-> "simplified", html |-> html, focus |-> ""]

PrimarySystemPrompt == "return the COMPLETE text content for getByText"
DegradedSystemPrompt == "Return only the query name and parameters."
PlanSystemPrompt == "Return ONLY valid JSON"

\* createLocatorPrompt(description, bodyContent)
CreateLocatorPrompt(description, bodyContent) ==
  [kind |-> "locator", about |-> ToJSString(description),
   body |-> bodyContent, feedback |-> <<>>]

\* createSimpleLocatorPrompt(description, simplifiedHTML)
CreateSimpleLocatorPrompt(description, simplifiedHTML) ==
  [kind |-> "simple", about |-> ToJSString(description),
   body |-> simplifiedHTML, feedback |-> <<>>]

NoPrompt ==
  [kind |-> "none", about |-> "", body |-> JNull, feedback |-> <<>>]

(***************************************************************************)
(* The environment: descriptions asked for, what a backend can answer       *)
(***************************************************************************)
Descriptions == {"the submit button", "the email field"}
\* the descriptions locate is called with: those, and the name of a property
\* of Object.prototype
LocateDescriptions == Descriptions \cup {"constructor"}

\* an action plan as the planning prompt asks for it
Plan(action, target, value, index) ==
  JObj([action |-> JStr(action), targetDescription |-> JStr(target),
        value |-> value, index |-> index])

\* the roles the locator prompt allows for getByRole
AriaRoles ==
  {"alert", "alertdialog", "application", "article", "banner", "button",
   "cell", "checkbox", "columnheader", "combobox", "complementary",
   "contentinfo", "definition", "dialog", "directory", "document", "feed",
   "figure", "form", "grid", "gridcell", "group", "heading", "img", "link",
   "list", "listbox", "listitem", "log", "main", "marquee", "math", "menu",
   "menubar", "menuitem", "meter", "navigation", "none", "note", "option",
   "presentation", "progressbar", "radio", "radiogroup", "region", "row",
   "rowgroup", "rowheader", "scrollbar", "search", "searchbox", "separator",
   "slider", "spinbutton", "status", "switch", "tab", "table", "tablist",
   "tabpanel", "term", "textbox", "timer", "toolbar", "tooltip", "tree",
   "treegrid", "treeitem"}

SubmitByRole == Query("getByRole", <<JStr("button"), JStr("Submit")>>)
\* valid JSON outside the Query Model
ParagraphByRole == Query("getByRole", <<JStr("paragraph")>>)
UnknownKind == Query("getByCss", <<JStr("button")>>)
EmptyParams == Query("getByText", <<>>)

ClickSubmit == Plan("click", "the submit button", JNull, JNull)

\* what a backend answers to a locator prompt
LocatorTexts ==
  {RawText("Sure, here is the query"),
   JSONStringify(SubmitByRole), JSONStringify(ParagraphByRole),
   JSONStringify(UnknownKind), JSONStringify(EmptyParams),
   JSONStringify(ClickSubmit)}

\* what a backend answers to a planning prompt
PlanTexts ==
  {RawText("Sure, here is the query"),
   JSONStringify(ClickSubmit),
   JSONStringify(Plan("fill", "the email field", JStr("user@example.com"),
                      JNull)),
   JSONStringify(Plan("fill", "the email field", JNull, JNull)),
   JSONStringify(Plan("fill", "the email field", JUndef, JUndef)),
   JSONStringify(Plan("click", "the submit button", JNull, JNum(-1))),
   JSONStringify(Plan("click", "the submit button", JNull, JNum(0))),
   JSONStringify(Plan("click", "the submit button", JNull, JNum(1))),
   JSONStringify(Plan("click", "the submit button", JNull, JNum(-2))),
   JSONStringify(SubmitByRole)}

\* what a backend call can settle with: a text, or a thrown transport error
TransportError == Err("Error", <<"fetch failed">>)
Thrown == [kind |-> "throw", text |-> RawText("")]
LocatorOutcomes == [kind : {"text"}, text : LocatorTexts] \cup {Thrown}
PlanOutcomes == [kind : {"text"}, text : PlanTexts] \cup {Thrown}

\* the backend installed behind the gateway: one that may do anything, a stub
\* whose every call throws, a stub whose every call outlasts the timeout
GatewayStubs == {"any", "alwaysThrow", "alwaysTimeout"}

\* the provider identifiers the constructor accepts
Providers ==
  {"ollama", "anthropic", "openai", "gemini", "deepseek", "bedrock"}

\* executePrompt: the backend client the call goes to on an instance
\* constructed for provider p.  The branches test for anthropic, openai,
\* deepseek, gemini and the ollama client; a bedrock instance holds an openai
\* client only and reaches the final else.
Route(p) ==
  CASE p = "anthropic" -> "anthropic"
    [] p = "openai" -> "openai"
    [] p = "deepseek" -> "deepseek"
    [] p = "gemini" -> "gemini"
    [] p = "ollama" -> "ollama"
    [] OTHER -> "unconfigured"

\* what an executePrompt call meets: the installed backend, or the throw of
\* "No AI provider configured" when no branch takes the call
Reached(p, stub) == IF Route(p) = "unconfigured" THEN "alwaysThrow" ELSE stub

\* one call of a backend client by executePrompt
Request(system, format, requests) ==
  [system |-> system, format |-> format, requests |-> requests]
NoRequest == Request("", "none", 0)

\* executePrompt, lines 352-507: what the branch taken on an instance of
\* provider p sends for a call with options.systemPrompt.  anthropic, openai
\* and deepseek put the system prompt in the request, gemini and ollama send
\* the prompt and the assistant prefill only.  openai and ollama ask for
\* output of the LocatorQuerySchema, deepseek for a JSON object, gemini for
\* the JSON media type.  deepseek calls chat.completions.create twice and
\* keeps the promise of the second call only.
BackendRequest(p, systemPrompt) ==
  CASE Route(p) = "anthropic" -> Request(systemPrompt, "none", 1)
    [] Route(p) = "openai" -> Request(systemPrompt, "LocatorQuerySchema", 1)
    [] Route(p) = "deepseek" -> Request(systemPrompt, "json_object", 2)
    [] Route(p) = "gemini" -> Request("", "application/json", 1)
    [] Route(p) = "ollama" -> Request("", "LocatorQuerySchema", 1)
    [] OTHER -> NoRequest

\* the requests of one executePrompt call whose promise is dropped: all but
\* the one behind responsePromise
Dropped(p) ==
  IF BackendRequest(p, "").requests > 1
  THEN BackendRequest(p, "").requests - 1
  ELSE 0

\* how a backend call that has just been issued will behave
IssueChoices(stub) ==
  IF stub = "alwaysTimeout" THEN {"running", "never"} ELSE {"running"}

\* what a running backend call can settle with, among the outcomes os
SettleChoices(stub, os) ==
  IF stub = "alwaysThrow" THEN {o \in os : o.kind = "throw"} ELSE os

\* the processes that share one cache file, and the queries they save
Writers == {"w1", "w2"}
SnapshotQueries ==
  {SubmitByRole, Query("getByText", <<JStr("Submit")>>)}

\* the cache files an instance can be pointed at
ReadmeShapeEntry ==
  JObj([queryName |-> JStr("getByRole"),
        params |-> JArr(<<JStr("button"), JStr("Submit")>>)])

\* an entry whose kind is a Testing Library query outside the enumeration
UnlistedKindEntry == Query("getByTitle", <<JStr("Submit")>>)

InitialFiles ==
  {AbsentFile,
   File(TRUE, TRUE, RawText("{ broken")),
   File(TRUE, TRUE, JSONStringify(JNull)),
   File(TRUE, TRUE,
        JSONStringify(JObj([d \in {"the submit button"} |-> SubmitByRole]))),
   File(TRUE, TRUE,
        JSONStringify(JObj([d \in {"the submit button"} |-> ReadmeShapeEntry]))),
   File(TRUE, TRUE,
        JSONStringify(JObj([d \in {"the submit button"} |-> UnlistedKindEntry]))),
   File(TRUE, FALSE,
        JSONStringify(JObj([d \in {"the submit button"} |-> SubmitByRole])))}

(***************************************************************************)
(* State                                                                   *)
(***************************************************************************)
VARIABLES
  \* configuration of the instance and its surroundings
  hasTestInstance,    \* options.testInstance was supplied
  gateway,            \* the backend behind executePrompt
  provider,           \* options.provider
  useSimplifiedHtml,  \* options.useSimplifiedHtml || false
  routedTo,           \* where the last executePrompt call went
  sent,               \* what the last executePrompt call sent to the backend
  unawaited,          \* backend requests started and never awaited, running
  file,               \* the snapshot file
  page,               \* the document the page shows
  \* A11yAILocator fields
  lastHtml, cachedBodyContent,
  \* the locate call in progress
  lpc,                \* "idle", "lookup", "fetch", "primary", "degraded",
                      \* "returned", "raised"
  caller,             \* "test" or "execute"
  ldesc,              \* its description argument
  lhtml,              \* const html
  lprompt,            \* the prompt of its last gateway invocation
  inflight,           \* the awaited backend call: "none", "running", "never"
  abandoned,          \* backend calls left running by a lost race
  lret, lerr,         \* the locator returned, the error raised
  lquery,             \* the query the locator was built from
  wrote,              \* how the cache write of this call went
  lpath,              \* where the result came from
  stale,              \* a cache entry was found with count 0
  timedOut,           \* the timer won the race of the primary attempt
  gwCalls,            \* gateway invocations made by this call
  fetched,            \* page.content() was called by this call
  reused,             \* the call took cachedBodyContent (line 224)
  \* the execute call in progress
  epc,                \* "idle", "plan", "resolving", "done", "raised"
  instruction, maxRetries, retries, lastError,
  eprompt,            \* let prompt
  plan,               \* actionPlan
  eerr,               \* the error raised
  planRequests,       \* gateway invocations made by the retry loop
  dispatched,         \* the engine operations called, in order
  raises,             \* how many times this call raised to its caller
  attempts,           \* how each pass of the retry loop ended, in order
  calls,              \* top-level calls made so far
  \* processes calling the SnapshotManager on the same file
  writers,            \* each saveSnapshot call: where it is, what it read
  roundTrip,          \* the last saveSnapshot followed by readSnapshots
  lastRead,           \* the last readSnapshots call and the file it read
  direct,             \* the last call of executeTestingLibraryQuery or
                      \* executeAction on its own: arguments and outcome
  \* what calls leave behind
  timers,             \* armed timers of timeoutPromise: those a Promise.race
                      \* subscribed to (watched) and those nobody did
  unhandledRejection  \* a promise without handler was rejected

cfgVars == <<hasTestInstance, gateway, provider, useSimplifiedHtml>>
instVars == <<lastHtml, cachedBodyContent>>
locVars ==
  <<lpc, caller, ldesc, lhtml, lprompt, lret, lerr, lquery, wrote, lpath,
    stale, timedOut, gwCalls, fetched, reused>>
execVars ==
  <<epc, instruction, maxRetries, retries, lastError, eprompt, plan, eerr,
    planRequests, dispatched, raises, attempts>>
snapVars == <<writers, roundTrip, lastRead, direct>>
pendVars == <<timers, unhandledRejection>>
vars ==
  <<cfgVars, file, page, instVars, locVars, inflight, abandoned, execVars,
    calls, routedTo, sent, unawaited, snapVars, pendVars>>

NoDirectCall == [fn |-> "none", a |-> JUndef, b |-> JUndef, out |-> JUndef]

\* a saveSnapshot call that has not started
IdleWriter ==
  [pc |-> "idle", desc |-> JUndef, query |-> JUndef, snap |-> JUndef,
   out |-> "none"]

Init ==
  /\ hasTestInstance \in BOOLEAN
  /\ gateway \in GatewayStubs
  /\ provider \in Providers
  /\ useSimplifiedHtml \in BOOLEAN
  /\ routedTo = "none"
  /\ sent = NoRequest
  /\ unawaited = 0
  /\ file \in InitialFiles
  /\ page \in PageStates
  /\ lastHtml = JNull
  /\ cachedBodyContent = JNull
  /\ lpc = "idle"
  /\ caller = "test"
  /\ ldesc = JUndef
  /\ lhtml = ""
  /\ lprompt = NoPrompt
  /\ inflight = "none"
  /\ abandoned = 0
  /\ lret = NoLocator
  /\ lerr = NoError
  /\ lquery = JUndef
  /\ wrote = "none"
  /\ lpath = "none"
  /\ stale = FALSE
  /\ timedOut = FALSE
  /\ gwCalls = 0
  /\ fetched = FALSE
  /\ reused = FALSE
  /\ epc = "idle"
  /\ instruction = ""
  /\ maxRetries = 0
  /\ retries = 0
  /\ lastError = NullValue
  /\ eprompt = NoPrompt
  /\ plan = JUndef
  /\ eerr = NoError
  /\ planRequests = 0
  /\ dispatched = <<>>
  /\ raises = 0
  /\ attempts = <<>>
  /\ calls = 0
  /\ writers = [w \in Writers |-> IdleWriter]
  /\ roundTrip =
       [done |-> FALSE, desc |-> JUndef, query |-> JUndef, out |-> "none",
        read |-> JUndef]
  /\ lastRead = [done |-> FALSE, from |-> AbsentFile, val |-> JUndef]
  /\ direct = NoDirectCall
  /\ timers = [watched |-> 0, unwatched |-> 0]
  /\ unhandledRejection = FALSE

(***************************************************************************)
(* A11yAILocator.locate                                                    *)
(***************************************************************************)
\* lines 192-214: the cache lookup.  "hit" returns the locator, "miss" and
\* "stale" go on to the document, "raise" leaves locate with an exception:
\* reading a property of a null mapping, building the locator from an entry
\* without query or params, calling step on a null testInstance, or count()
\* on a closed page.
LookupSnapshot(f, description, withStep, p) ==
  LET snapshots == ReadSnapshots(f)
      entry == GetInherited(snapshots, ToJSString(description))
      built == ExecuteTestingLibraryQuery(entry)
      res(kind, loc, err) == [kind |-> kind, loc |-> loc, err |-> err]
  IN IF snapshots.t \in {"null", "undef"}
       THEN res("raise", NoLocator, TypeErr(ToJSString(description)))
     ELSE IF ~Truthy(entry) THEN res("miss", NoLocator, NoError)
     ELSE IF ~built.ok THEN res("raise", NoLocator, built.err)
     ELSE IF ~withStep THEN res("raise", NoLocator, TypeErr("step"))
     ELSE IF Get(entry, "params").t # "arr"
       THEN res("raise", NoLocator, TypeErr("join"))
     ELSE IF p = "closed" THEN res("raise", NoLocator, EngineError)
     ELSE IF Count(p, built.loc) > 0 THEN res("hit", built.loc, NoError)
     ELSE res("stale", NoLocator, NoError)

\* lines 255 and 333: LocatorQuerySchema.parse(JSON.parse(queryInfo))
ParseLocatorResponse(text) ==
  LET parsed == JSONParse(text)
  IN IF parsed.ok THEN LocatorQuerySchemaParse(parsed.val)
     ELSE [ok |-> FALSE, val |-> JUndef, err |-> parsed.err]

ExecIdle ==
  /\ epc' = "idle"
  /\ instruction' = ""
  /\ maxRetries' = 0
  /\ retries' = 0
  /\ lastError' = NullValue
  /\ eprompt' = NoPrompt
  /\ plan' = JUndef
  /\ eerr' = NoError
  /\ planRequests' = 0
  /\ dispatched' = <<>>
  /\ raises' = 0
  /\ attempts' = <<>>

\* the state of a locate call that has just been entered
LocateEntered(description, from) ==
  /\ lpc' = "lookup"
  /\ caller' = from
  /\ ldesc' = description
  /\ lhtml' = ""
  /\ lprompt' = NoPrompt
  /\ inflight' = "none"
  /\ lret' = NoLocator
  /\ lerr' = NoError
  /\ lquery' = JUndef
  /\ wrote' = "none"
  /\ lpath' = "none"
  /\ stale' = FALSE
  /\ timedOut' = FALSE
  /\ gwCalls' = 0
  /\ fetched' = FALSE
  /\ reused' = FALSE

\* the frame of a locate call that has returned to execute is gone
LocateLeft ==
  /\ lpc' = "idle"
  /\ caller' = "test"
  /\ ldesc' = JUndef
  /\ lhtml' = ""
  /\ lprompt' = NoPrompt
  /\ lret' = NoLocator
  /\ lerr' = NoError
  /\ lquery' = JUndef
  /\ wrote' = "none"
  /\ lpath' = "none"
  /\ stale' = FALSE
  /\ timedOut' = FALSE
  /\ gwCalls' = 0
  /\ fetched' = FALSE
  /\ reused' = FALSE

NoCallActive ==
  /\ lpc \in {"idle", "returned", "raised"}
  /\ epc \in {"idle", "done", "raised"}

\* a test calls locate(description)
Locate(d) ==
  /\ NoCallActive
  /\ calls < MaxCalls
  /\ calls' = calls + 1
  /\ LocateEntered(JStr(d), "test")
  /\ ExecIdle
  /\ UNCHANGED <<cfgVars, snapVars, pendVars,
                 file, page, instVars, abandoned, routedTo,
                 sent, unawaited>>

\* lines 192-214
CacheLookup ==
  /\ lpc = "lookup"
  /\ LET r == LookupSnapshot(file, ldesc, hasTestInstance, page)
     IN /\ lpc' = CASE r.kind = "hit" -> "returned"
                    [] r.kind = "raise" -> "raised"
                    [] OTHER -> "fetch"
        /\ lret' = r.loc
        /\ lerr' = r.err
        /\ lpath' = IF r.kind = "hit" THEN "hit" ELSE "none"
        /\ stale' = (r.kind = "stale")
        /\ lquery' = IF r.kind = "hit"
                     THEN Get(ReadSnapshots(file), ToJSString(ldesc))
                     ELSE lquery
  /\ UNCHANGED <<cfgVars, snapVars, pendVars,
                 file, page, instVars, abandoned, execVars,
                 calls,
                 caller, ldesc, lhtml, lprompt, inflight, gwCalls, fetched,
                 reused, wrote, timedOut, routedTo, sent, unawaited>>

\* lines 344-508: executePrompt is entered with options.systemPrompt and
\* calls the backend client
ExecutePromptIssued(systemPrompt) ==
  /\ unawaited + Dropped(provider) <= MaxAbandoned
  /\ routedTo' = Route(provider)
  /\ sent' = BackendRequest(provider, systemPrompt)
  /\ unawaited' = unawaited + Dropped(provider)
  /\ inflight' \in IssueChoices(Reached(provider, gateway))

\* a test that takes the cached representation whatever the document is
ReuseBodyAlways(last, cached, html) == Truthy(cached)

\* line 223: this.lastHtml === html && this.cachedBodyContent
ReuseBody(last, cached, html) == last = JStr(html) /\ Truthy(cached)

\* lines 236-241 and 363-366: the timer of timeoutPromise is armed; the
\* Promise.race of the branch executePrompt takes subscribes to the promise,
\* and no one does when executePrompt throws at line 506 before any race
TimerArmed(t, p) ==
  IF Route(p) = "unconfigured"
  THEN [t EXCEPT !.unwatched = @ + 1]
  ELSE [t EXCEPT !.watched = @ + 1]

\* lines 217-268: fetch the document, derive its representation, build the
\* prompt, arm the timer and issue the primary backend call
FetchDocument ==
  /\ lpc = "fetch"
  /\ fetched' = TRUE
  /\ \/ /\ page = "closed"
        /\ lpc' = "raised"
        /\ lerr' = EngineError
        /\ UNCHANGED <<instVars, lhtml, lprompt, inflight, gwCalls, routedTo,
                       sent, unawaited, timers,
                       reused>>
     \/ /\ page # "closed"
        /\ LET html == Html(page)
               reuse == ReuseBody(lastHtml, cachedBodyContent, html)
               bodyContent == IF reuse THEN cachedBodyContent
                              ELSE ExtractBodyContent(html, ldesc)
           IN /\ lhtml' = html
              /\ reused' = reuse
              /\ lastHtml' = JStr(html)
              /\ cachedBodyContent' = bodyContent
              /\ lprompt' = CreateLocatorPrompt(ldesc, bodyContent)
        /\ lpc' = "primary"
        /\ timers' = TimerArmed(timers, provider)
        /\ gwCalls' = gwCalls + 1
        /\ ExecutePromptIssued(PrimarySystemPrompt)
        /\ UNCHANGED lerr
  /\ UNCHANGED <<cfgVars, snapVars, unhandledRejection,
                 file, page, abandoned, execVars, calls,
                 caller, ldesc, lret, lquery, wrote, lpath, stale, timedOut>>

\* a catch that sends the prompt of the primary attempt once more
DegradeStartRepeatsPrimary ==
  /\ lpc' = "primary"
  /\ gwCalls' = gwCalls + 1
  /\ ExecutePromptIssued(PrimarySystemPrompt)
  /\ UNCHANGED <<file, lprompt, lret, lerr, lquery, wrote, lpath>>

\* lines 275-286 and 318-331: the catch of the primary attempt builds the
\* simplified prompt and issues the degraded backend call, without a timer
DegradeStart ==
  /\ lpc' = "degraded"
  /\ lprompt' = CreateSimpleLocatorPrompt(ldesc, SimplifyHtml(lhtml))
  /\ gwCalls' = gwCalls + 1
  /\ ExecutePromptIssued(DegradedSystemPrompt)
  /\ UNCHANGED <<file, lret, lerr, lquery, wrote, lpath>>

\* a locate that lets the failure of the cache write reach its caller
SaveAndReturnOrRaise(query, path) ==
  /\ \E w \in WriteOutcomes :
        /\ file' = SaveSnapshot(file, ldesc, query, w)
        /\ wrote' = IF SaveCompletes(ReadSnapshots(file), w) THEN "ok"
                    ELSE "failed"
        /\ lpc' = IF SaveCompletes(ReadSnapshots(file), w) THEN "returned"
                  ELSE "raised"
  /\ lquery' = query
  /\ lret' = ExecuteTestingLibraryQuery(query).loc
  /\ lerr' = NoError
  /\ lpath' = path
  /\ inflight' = "none"
  /\ UNCHANGED <<lprompt, gwCalls, routedTo, sent, unawaited>>

\* lines 270-274 and 288-292: persist the validated query and return its
\* locator
SaveAndReturn(query, path) ==
  /\ \E w \in WriteOutcomes :
        /\ file' = SaveSnapshot(file, ldesc, query, w)
        /\ wrote' = IF SaveCompletes(ReadSnapshots(file), w) THEN "ok"
                    ELSE "failed"
  /\ lquery' = query
  /\ lpc' = "returned"
  /\ lret' = ExecuteTestingLibraryQuery(query).loc
  /\ lerr' = NoError
  /\ lpath' = path
  /\ inflight' = "none"
  /\ UNCHANGED <<lprompt, gwCalls, routedTo, sent, unawaited>>

\* a fallback that saves the text query of the description in the cache
LiteralFallbackPersisted ==
  /\ lpc' = "returned"
  /\ lret' = TextFallback(ldesc)
  /\ lerr' = NoError
  /\ lpath' = "fallback"
  /\ inflight' = "none"
  /\ file' = SaveSnapshot(file, ldesc, Query("getByText", <<ldesc>>), "ok")
  /\ UNCHANGED <<lprompt, gwCalls, lquery, wrote, routedTo, sent, unawaited>>

\* lines 293-301: the catch of the degraded attempt returns the inexact text
\* locator of the description; saveSnapshot is not called
LiteralFallback ==
  /\ lpc' = "returned"
  /\ lret' = TextFallback(ldesc)
  /\ lerr' = NoError
  /\ lpath' = "fallback"
  /\ inflight' = "none"
  /\ UNCHANGED <<file, lprompt, gwCalls, lquery, wrote, routedTo, sent,
                 unawaited>>

\* line 281: if (this.useSimplifiedHtml || true)
DegradedAttemptEnabled(option) == option \/ TRUE

\* lines 275-308: the catch of the primary attempt
PrimaryFailed ==
  IF DegradedAttemptEnabled(useSimplifiedHtml)
  THEN DegradeStart
  ELSE LiteralFallback

\* the primary backend call settles before the timer fires
PrimarySettles(o) ==
  /\ lpc = "primary"
  /\ inflight = "running"
  /\ Reached(provider, gateway) # "alwaysTimeout"
  /\ o \in SettleChoices(Reached(provider, gateway), LocatorOutcomes)
  /\ LET r == ParseLocatorResponse(o.text)
     IN IF o.kind = "text" /\ r.ok
        THEN SaveAndReturn(r.val, "primary")
        ELSE PrimaryFailed
  /\ UNCHANGED <<cfgVars, snapVars, pendVars,
                 page, instVars, abandoned, execVars, calls,
                 caller, ldesc, lhtml, stale, timedOut, fetched,
                 reused>>

\* the timer fires first: Promise.race rejects, the backend call is left
\* running
PrimaryTimeout ==
  /\ lpc = "primary"
  /\ Reached(provider, gateway) # "alwaysThrow"
  /\ inflight = "running" => abandoned < MaxAbandoned
  /\ timedOut' = TRUE
  /\ timers' = [timers EXCEPT !.watched = @ - 1]
  /\ abandoned' = IF inflight = "running" THEN abandoned + 1 ELSE abandoned
  /\ PrimaryFailed
  /\ UNCHANGED <<cfgVars, snapVars, unhandledRejection,
                 page, instVars, execVars, calls,
                 caller, ldesc, lhtml, stale, fetched, reused>>

\* the degraded backend call settles: lines 283-292, or the catch of line 293
DegradedSettles(o) ==
  /\ lpc = "degraded"
  /\ inflight = "running"
  /\ o \in SettleChoices(Reached(provider, gateway), LocatorOutcomes)
  /\ LET r == ParseLocatorResponse(o.text)
     IN IF o.kind = "text" /\ r.ok
        THEN SaveAndReturn(r.val, "degraded")
        ELSE LiteralFallback
  /\ UNCHANGED <<cfgVars, snapVars, pendVars,
                 page, instVars, abandoned, execVars, calls,
                 caller, ldesc, lhtml, stale, timedOut, fetched,
                 reused>>

\* an abandoned backend call whose late answer is saved in the cache
LateBackendSettlesAndSaves ==
  /\ abandoned > 0
  /\ abandoned' = abandoned - 1
  /\ file' = SaveSnapshot(file, ldesc, SubmitByRole, "ok")
  /\ UNCHANGED <<cfgVars, snapVars, pendVars, page, instVars, locVars, inflight,
                 execVars, calls, routedTo, sent, unawaited>>

\* lines 366-367: a backend call abandoned by a lost race settles; its
\* promise has no consumer left but the race that is over
LateBackendSettles ==
  /\ abandoned > 0
  /\ abandoned' = abandoned - 1
  /\ UNCHANGED <<cfgVars, snapVars, pendVars,
                 file, page, instVars, locVars, inflight,
                 execVars,
                 calls, routedTo, sent, unawaited>>

\* lines 409-422: the first chat.completions.create of the deepseek branch
\* settles; nothing holds its promise, so its rejection has no handler
UnawaitedSettles ==
  /\ unawaited > 0
  /\ unawaited' = unawaited - 1
  /\ \E o \in SettleChoices(Reached(provider, gateway),
                            {[kind |-> "text"], [kind |-> "throw"]}) :
       unhandledRejection' = (unhandledRejection \/ o.kind = "throw")
  /\ UNCHANGED <<cfgVars, snapVars, timers, file, page, instVars, locVars,
                 inflight, abandoned, execVars, calls, routedTo, sent>>

\* lines 237-240: a timer fires outside the race of a primary attempt in
\* progress and rejects its timeoutPromise.  The race that subscribed to the
\* promise is over and ignores it; a promise nobody subscribed to is
\* rejected without handler.
TimerFires ==
  /\ \/ /\ timers.watched > (IF lpc = "primary" THEN 1 ELSE 0)
        /\ timers' = [timers EXCEPT !.watched = @ - 1]
        /\ UNCHANGED unhandledRejection
     \/ /\ timers.unwatched > 0
        /\ timers' = [timers EXCEPT !.unwatched = @ - 1]
        /\ unhandledRejection' = TRUE
  /\ UNCHANGED <<cfgVars, snapVars, file, page, instVars, locVars, inflight,
                 abandoned, execVars, calls, routedTo, sent, unawaited>>

\* between two calls the test navigates, or the page is closed
Navigate(p) ==
  /\ NoCallActive
  /\ p # page
  /\ page' = p
  /\ UNCHANGED <<cfgVars, snapVars, pendVars, file, instVars, locVars, inflight,
                 abandoned,
                 execVars, calls, routedTo, sent, unawaited>>

(***************************************************************************)
(* AIAgent.execute                                                         *)
(***************************************************************************)
Instructions == {"click the submit button"}

\* lines 61-94: basePrompt
BasePrompt(instr, bodyContent) ==
  [kind |-> "plan", about |-> instr, body |-> bodyContent, feedback |-> <<>>]

\* lines 130-136: the retry prompt, basePrompt followed by the error message
RetryPrompt(instr, bodyContent, error) ==
  [kind |-> "plan", about |-> instr, body |-> bodyContent,
   feedback |-> IF error.name \in {"null", "none"} THEN <<"unknown error">>
                ELSE error.msg]

\* line 100: while (retries <= maxRetries)
LoopContinues(r, m) == r <= m

\* the retry test with the budget counted one short
CanRetryOneShort(r, m) == r + 1 < m

\* line 128: if (retries < maxRetries)
CanRetry(r, m) == r < m

\* line 142: the error thrown when the retries are exhausted
ExhaustedError(instr, m, error) ==
  Err("Error",
      <<"Failed to execute instruction", instr, "after", ToString(m),
        "retries">> \o ErrText(error))

\* line 113
InvalidJSONError(text) == Err("Error", <<"Invalid JSON response", text.s>>)

\* an index selector that counts from one
ApplyIndexSelectorOneBased(locator, index) ==
  IF index.t = "null" THEN locator
  ELSE IF index.t = "num" /\ index.v = -1
    THEN [locator EXCEPT !.sel = [k |-> "last", n |-> 0]]
  ELSE IF index.t = "num" /\ index.v >= 1
    THEN [locator EXCEPT !.sel = [k |-> "nth", n |-> index.v - 1]]
  ELSE locator

\* lines 182-192: applyIndexSelector; the index of a plan is a number, null
\* or missing
ApplyIndexSelector(locator, index) ==
  IF index.t = "null" THEN locator
  ELSE IF index.t = "num" /\ index.v = -1
    THEN [locator EXCEPT !.sel = [k |-> "last", n |-> 0]]
  ELSE IF index.t = "num" /\ index.v >= 0
    THEN [locator EXCEPT !.sel = [k |-> "nth", n |-> index.v]]
  ELSE locator

\* the engine operation a click plan is dispatched to when the case label
\* is mistaken for its neighbour
VerbOperationMistaken(a) ==
  CASE a = "click" -> "dblclick"
    [] a = "fill" -> "fill"
    [] a = "check" -> "check"
    [] a = "uncheck" -> "uncheck"
    [] a = "select" -> "selectOption"
    [] a = "press" -> "press"
    [] a = "hover" -> "hover"
    [] a = "dblclick" -> "dblclick"
    [] a = "focus" -> "focus"
    [] a = "tap" -> "tap"
    [] OTHER -> "none"

\* a switch in which tap falls into the case of click
VerbOperationTapAsClick(a) ==
  CASE a = "click" -> "click"
    [] a = "fill" -> "fill"
    [] a = "check" -> "check"
    [] a = "uncheck" -> "uncheck"
    [] a = "select" -> "selectOption"
    [] a = "press" -> "press"
    [] a = "hover" -> "hover"
    [] a = "dblclick" -> "dblclick"
    [] a = "focus" -> "focus"
    [] a = "tap" -> "click"
    [] OTHER -> "none"

\* lines 205-247: the locator method each case of the switch calls
VerbOperation(a) ==
  CASE a = "click" -> "click"
    [] a = "fill" -> "fill"
    [] a = "check" -> "check"
    [] a = "uncheck" -> "uncheck"
    [] a = "select" -> "selectOption"
    [] a = "press" -> "press"
    [] a = "hover" -> "hover"
    [] a = "dblclick" -> "dblclick"
    [] a = "focus" -> "focus"
    [] a = "tap" -> "tap"
    [] OTHER -> "none"

\* lines 200-248: executeAction up to the engine call it makes: the
\* operation and its argument, or the error thrown before any engine call
ExecuteAction(locator, action, value) ==
  LET a == IF action.t = "str" THEN action.v ELSE ""
      call(arg) ==
        [kind |-> "call", op |-> VerbOperation(a), on |-> locator,
         arg |-> arg, err |-> NoError]
      throw(msg) ==
        [kind |-> "throw", op |-> "none", on |-> locator, arg |-> JUndef,
         err |-> Err("Error", msg)]
  IN CASE a \in {"click", "check", "uncheck", "hover", "dblclick", "focus",
                 "tap"} -> call(JUndef)
       [] a = "fill" ->
            IF value.t = "null"
            THEN throw(<<"Value is required for fill action">>)
            ELSE call(value)
       [] a = "select" ->
            IF value.t = "null"
            THEN throw(<<"Value is required for select action">>)
            ELSE call(value)
       [] a = "press" ->
            IF value.t = "null"
            THEN throw(<<"Key is required for press action">>)
            ELSE call(value)
       [] OTHER -> throw(<<"Unsupported action", ToJSString(action)>>)

ActionError == Err("TimeoutError", <<"locator action failed">>)

\* the backend call of the retry loop is issued (line 103)
PlanRequestIssued ==
  /\ epc' = "plan"
  /\ planRequests' = planRequests + 1
  /\ ExecutePromptIssued(PlanSystemPrompt)
  /\ UNCHANGED <<eerr, raises>>

\* the call raises e to its caller
ExecuteRaises(e) ==
  /\ epc' = "raised"
  /\ eerr' = e
  /\ raises' = raises + 1
  /\ inflight' = "none"
  /\ UNCHANGED <<planRequests, routedTo, sent, unawaited>>

\* lines 125-148: the catch of the retry loop, entered with error after a
\* pass that ended as how
Catch(error, how) ==
  /\ lastError' = error
  /\ plan' = JUndef
  /\ attempts' = Append(attempts, how)
  /\ IF CanRetry(retries, maxRetries)
     THEN /\ eprompt' = RetryPrompt(instruction, eprompt.body, error)
          /\ retries' = retries + 1
          /\ IF LoopContinues(retries + 1, maxRetries)
             THEN PlanRequestIssued
             ELSE ExecuteRaises(error)
     ELSE /\ ExecuteRaises(ExhaustedError(instruction, maxRetries, error))
          /\ UNCHANGED <<eprompt, retries>>

\* a test calls execute(instruction, maxRetries): lines 50-105 up to the
\* first backend call
Execute(instr, m) ==
  /\ NoCallActive
  /\ calls < MaxCalls
  /\ calls' = calls + 1
  /\ instruction' = instr
  /\ maxRetries' = m
  /\ retries' = 0
  /\ lastError' = NullValue
  /\ plan' = JUndef
  /\ dispatched' = <<>>
  /\ attempts' = <<>>
  /\ LocateLeft
  /\ IF page = "closed"
     THEN /\ epc' = "raised"
          /\ eerr' = EngineError
          /\ raises' = 1
          /\ planRequests' = 0
          /\ inflight' = "none"
          /\ eprompt' = NoPrompt
          /\ UNCHANGED <<routedTo, sent, unawaited>>
     ELSE /\ eprompt' = BasePrompt(instr, ExtractBodyContent(Html(page), JUndef))
          /\ IF LoopContinues(0, m)
             THEN /\ epc' = "plan"
                  /\ planRequests' = 1
                  /\ ExecutePromptIssued(PlanSystemPrompt)
                  /\ eerr' = NoError
                  /\ raises' = 0
             ELSE /\ epc' = "raised"
                  /\ eerr' = NullValue
                  /\ raises' = 1
                  /\ planRequests' = 0
                  /\ inflight' = "none"
                  /\ UNCHANGED <<routedTo, sent, unawaited>>
  /\ UNCHANGED <<cfgVars, snapVars, pendVars, file, page, instVars, abandoned>>

\* the plan request settles: lines 103-124 up to the call of locate made by
\* executeActionPlan (line 167), or the catch
PlanSettles(o) ==
  /\ epc = "plan"
  /\ inflight = "running"
  /\ o \in SettleChoices(Reached(provider, gateway), PlanOutcomes)
  /\ LET parsed == JSONParse(o.text)
     IN IF o.kind = "throw"
          THEN /\ Catch(TransportError, "threw")
               /\ UNCHANGED locVars
        ELSE IF ~parsed.ok
          THEN /\ Catch(InvalidJSONError(o.text), "unparseable")
               /\ UNCHANGED locVars
        ELSE IF parsed.val.t \in {"null", "undef"}
          THEN /\ Catch(TypeErr("targetDescription"), "failed")
               /\ UNCHANGED locVars
        ELSE /\ plan' = parsed.val
             /\ epc' = "resolving"
             /\ LocateEntered(Get(parsed.val, "targetDescription"), "execute")
             /\ UNCHANGED <<retries, lastError, eprompt, eerr, planRequests,
                            raises, attempts, routedTo, sent, unawaited>>
  /\ UNCHANGED <<cfgVars, snapVars, pendVars,
                 file, page, instVars, abandoned, calls,
                 dispatched,
                 instruction, maxRetries>>

\* locate has left: lines 167-173 (applyIndexSelector, executeAction and the
\* engine call it awaits), then the return of line 117 or the catch
ResolveSettles ==
  /\ epc = "resolving"
  /\ lpc \in {"returned", "raised"}
  /\ LET act == ExecuteAction(ApplyIndexSelector(lret, Get(plan, "index")),
                              Get(plan, "action"), Get(plan, "value"))
     IN IF lpc = "raised"
          THEN /\ Catch(lerr, "failed")
               /\ UNCHANGED dispatched
        ELSE IF act.kind = "throw"
          THEN /\ Catch(act.err, "failed")
               /\ UNCHANGED dispatched
        ELSE /\ dispatched' =
                  Append(dispatched,
                         [op |-> act.op, on |-> act.on, arg |-> act.arg])
             /\ \/ /\ page # "closed"
                   /\ Count(page, act.on) > 0
                   /\ epc' = "done"
                   /\ attempts' = Append(attempts, "ok")
                   /\ inflight' = "none"
                   /\ UNCHANGED <<retries, lastError, eprompt, eerr,
                                  planRequests, raises, plan, routedTo, sent, unawaited>>
                \/ Catch(ActionError, "failed")
  /\ LocateLeft
  /\ UNCHANGED <<cfgVars, snapVars, pendVars,
                 file, page, instVars, abandoned, calls,
                 instruction, maxRetries>>

(***************************************************************************)
(* SnapshotManager called by processes that share the cache file           *)
(***************************************************************************)
\* everything but the file and the SnapshotManager calls
LocatorUntouched ==
  UNCHANGED <<cfgVars, pendVars, page, instVars, locVars, inflight,
              abandoned, execVars, calls, routedTo, sent, unawaited>>

\* the file is used either by one process alone, which saves and reads in
\* sequence, or by the concurrent writers
AloneOnFile == \A w \in Writers : writers[w].pc = "idle"
NoSequentialUse == ~roundTrip.done /\ ~lastRead.done

\* saveSnapshot lines 79-87 in process w: the directory is made and the
\* mapping is read from the file; an exception of mkdir ends the call
WriterReads(w, d, q) ==
  /\ writers[w].pc = "idle"
  /\ NoSequentialUse
  /\ \E o \in WriteOutcomes :
       writers' =
         [writers EXCEPT ![w] =
            IF o = "failed"
            THEN [pc |-> "done", desc |-> JStr(d), query |-> q,
                  snap |-> JUndef, out |-> "failed"]
            ELSE [pc |-> "read", desc |-> JStr(d), query |-> q,
                  snap |-> ReadSnapshots(file), out |-> "none"]]
  /\ UNCHANGED <<file, roundTrip, lastRead, direct>>
  /\ LocatorUntouched

\* saveSnapshot lines 89-94 in process w: the entry is set in the mapping
\* read earlier and the mapping is written over the file
WriterWrites(w) ==
  /\ writers[w].pc = "read"
  /\ \E o \in WriteOutcomes :
       /\ file' = WriteBack(file, writers[w].snap, writers[w].desc,
                            writers[w].query, o)
       /\ writers' =
            [writers EXCEPT ![w].pc = "done",
                            ![w].out = IF SaveCompletes(writers[w].snap, o)
                                       THEN "ok" ELSE "failed"]
  /\ UNCHANGED <<roundTrip, lastRead, direct>>
  /\ LocatorUntouched

\* one process calls saveSnapshot(d, q) and then readSnapshots()
SaveThenRead(d, q) ==
  /\ AloneOnFile
  /\ \E o \in WriteOutcomes :
       /\ file' = SaveSnapshot(file, JStr(d), q, o)
       /\ roundTrip' =
            [done |-> TRUE, desc |-> JStr(d), query |-> q, out |-> o,
             read |-> ReadSnapshots(file')]
  /\ UNCHANGED <<writers, lastRead, direct>>
  /\ LocatorUntouched

\* a process calls readSnapshots()
ReadFile ==
  /\ AloneOnFile
  /\ lastRead' = [done |-> TRUE, from |-> file, val |-> ReadSnapshots(file)]
  /\ UNCHANGED <<file, writers, roundTrip, direct>>
  /\ LocatorUntouched

(***************************************************************************)
(* executeTestingLibraryQuery and executeAction called on their own        *)
(***************************************************************************)
\* the queries executeTestingLibraryQuery is called with: the six kinds, a
\* kind in other letter case, an unlisted kind; one, two or no parameters
QueryInputs ==
  {Query(k, ps) :
     k \in QueryKinds \cup {"GETBYTEXT", "getByTitle"},
     ps \in {<<JStr("Submit")>>, <<JStr("button"), JStr("Submit")>>, <<>>}}

\* the actions and values executeAction is called with: the ten verbs, the
\* name of an engine operation that is no verb, an unknown word, no action
ActionInputs ==
  {JStr(a) : a \in {"click", "fill", "check", "uncheck", "select", "press",
                    "hover", "dblclick", "focus", "tap", "selectOption",
                    "scroll"}} \cup {JUndef}
ValueInputs == {JNull, JStr("user@example.com")}

\* lines 516-546 applied to query
CallExecuteTestingLibraryQuery(query) ==
  /\ direct' = [fn |-> "executeTestingLibraryQuery", a |-> query,
                b |-> JUndef, out |-> ExecuteTestingLibraryQuery(query)]
  /\ UNCHANGED <<cfgVars, pendVars, file, page, instVars, locVars, inflight,
                 abandoned, execVars, calls, routedTo, sent, unawaited,
                 writers, roundTrip, lastRead>>

\* ai-agent.ts lines 200-248 applied to the inexact text locator of Submit
CallExecuteAction(action, value) ==
  /\ direct' = [fn |-> "executeAction", a |-> action, b |-> value,
                out |-> ExecuteAction(TextFallback(JStr("Submit")), action,
                                      value)]
  /\ UNCHANGED <<cfgVars, pendVars, file, page, instVars, locVars, inflight,
                 abandoned, execVars, calls, routedTo, sent, unawaited,
                 writers, roundTrip, lastRead>>

(***************************************************************************)
(* Specifications                                                          *)
(***************************************************************************)
\* the steps of a locate call, whoever called it
LocateSteps ==
  \/ CacheLookup
  \/ FetchDocument
  \/ \E o \in LocatorOutcomes : PrimarySettles(o)
  \/ PrimaryTimeout
  \/ \E o \in LocatorOutcomes : DegradedSettles(o)

\* the steps of an execute call
ExecuteSteps ==
  \/ \E o \in PlanOutcomes : PlanSettles(o)
  \/ ResolveSettles

\* any sequence of locate and execute calls on one instance
Next ==
  \/ \E d \in LocateDescriptions : Locate(d)
  \/ \E i \in Instructions, m \in -1 .. MaxRetriesBound : Execute(i, m)
  \/ LocateSteps
  \/ ExecuteSteps
  \/ LateBackendSettles
  \/ UnawaitedSettles
  \/ TimerFires
  \/ \E p \in PageStates : Navigate(p)

Spec == Init /\ [][Next]_vars

\* a test that only calls locate
LocateNext ==
  \/ \E d \in LocateDescriptions : Locate(d)
  \/ LocateSteps
  \/ LateBackendSettles
  \/ UnawaitedSettles
  \/ \E p \in PageStates : Navigate(p)

LocateSpec == Init /\ [][LocateNext]_vars

\* the same, with the scheduling the runtime guarantees: a step that can be
\* taken is taken, a running backend call settles, an armed timer fires
LocateFairSpec ==
  /\ LocateSpec
  /\ WF_vars(CacheLookup)
  /\ WF_vars(FetchDocument)
  /\ WF_vars((\E o \in LocatorOutcomes : PrimarySettles(o)) \/ PrimaryTimeout)
  /\ WF_vars(\E o \in LocatorOutcomes : DegradedSettles(o))
  /\ WF_vars(LateBackendSettles)
  /\ WF_vars(UnawaitedSettles)

\* one execute call on an instance in any initial state
ExecuteOnce(i, m) ==
  /\ calls = 0
  /\ Execute(i, m)

ExecuteNext ==
  \/ \E i \in Instructions, m \in -1 .. MaxRetriesBound : ExecuteOnce(i, m)
  \/ ExecuteSteps
  \/ LocateSteps
  \/ LateBackendSettles

\* execute is explored on an instance whose calls are routed and on the one
\* whose calls are not, with a backend whose calls all settle, and with no
\* cache file or one that holds a valid entry, on a rendered or closed page
ExecuteProviders == {"anthropic", "bedrock"}
ExecuteGateways == {"any", "alwaysThrow"}
ExecutePages == {"pageA", "pageB", "closed"}
ExecuteFiles ==
  {f \in InitialFiles :
     /\ f.readable
     /\ f.exists =>
          \E d \in Descriptions :
            LocatorQuerySchemaParse(Get(ReadSnapshots(f), d)).ok}

ExecuteInit ==
  /\ Init
  /\ ~useSimplifiedHtml
  /\ page \in ExecutePages
  /\ provider \in ExecuteProviders
  /\ gateway \in ExecuteGateways
  /\ file \in ExecuteFiles

ExecuteSpec == ExecuteInit /\ [][ExecuteNext]_vars

\* the plan requests of one execute call on an instance of each provider:
\* the backend throws, so every pass of the retry loop ends at the request
PlanRequestInit ==
  /\ Init
  /\ ~useSimplifiedHtml
  /\ gateway = "alwaysThrow"
  /\ file = AbsentFile
  /\ page \in ExecutePages

PlanRequestNext ==
  \/ \E i \in Instructions, m \in -1 .. MaxRetriesBound : ExecuteOnce(i, m)
  \/ \E o \in PlanOutcomes : PlanSettles(o)
  \/ UnawaitedSettles

PlanRequestSpec == PlanRequestInit /\ [][PlanRequestNext]_vars

\* the two private functions called with each of their inputs
DirectInit ==
  /\ Init
  /\ ~useSimplifiedHtml
  /\ gateway = "any"
  /\ provider = "anthropic"
  /\ file = AbsentFile

DirectNext ==
  \/ \E q \in QueryInputs : CallExecuteTestingLibraryQuery(q)
  \/ \E a \in ActionInputs, v \in ValueInputs : CallExecuteAction(a, v)

DirectSpec == DirectInit /\ [][DirectNext]_vars

\* locate calls on an empty cache and what they leave behind: the timer of
\* each primary attempt fires sooner or later, whoever is listening
PendingInit ==
  /\ Init
  /\ ~useSimplifiedHtml
  /\ hasTestInstance
  /\ file = AbsentFile
  /\ page = "pageA"

PendingNext ==
  \/ LocateNext
  \/ TimerFires

PendingSpec == PendingInit /\ [][PendingNext]_vars

\* processes that use a SnapshotManager on one file, no locator involved
SnapshotInit ==
  /\ Init
  /\ ~useSimplifiedHtml
  /\ ~hasTestInstance
  /\ gateway = "any"
  /\ provider = "anthropic"
  /\ page = "pageA"

SnapshotNext ==
  \/ \E w \in Writers, d \in Descriptions, q \in SnapshotQueries :
       WriterReads(w, d, q)
  \/ \E w \in Writers : WriterWrites(w)
  \/ \E d \in Descriptions, q \in SnapshotQueries : SaveThenRead(d, q)
  \/ ReadFile

SnapshotSpec == SnapshotInit /\ [][SnapshotNext]_vars

(***************************************************************************)
(* Claims                                                                  *)
(***************************************************************************)
\* C1: when the cache file holds an entry for the description and the
\* locator built from it matches at least one live element, the lookup step
\* of locate returns that locator, without fetching the document and without
\* invoking the gateway.
C1_CacheHitReturns ==
  [][LET entry == Get(ReadSnapshots(file), ToJSString(ldesc))
         built == ExecuteTestingLibraryQuery(entry)
         hitCase == /\ ReadSnapshots(file).t = "obj"
                    /\ Truthy(entry)
                    /\ built.ok
                    /\ page # "closed"
                    /\ Count(page, built.loc) > 0
     IN (lpc = "lookup" /\ lpc' # "lookup" /\ hitCase)
          => /\ lpc' = "returned"
             /\ lret' = built.loc
             /\ gwCalls' = 0
             /\ ~fetched']_vars

\* C2: locate never raises to its caller, whatever the cache file holds,
\* whatever the engine and the gateway do, with or without a testInstance.
C2_LocateNeverRaises == lpc # "raised"

\* C3: with a gateway whose every call throws or outlasts the timeout, a
\* locate call that has reached the primary attempt eventually returns the
\* inexact text locator of the description.
C3_FailingGatewayEndsInTextQuery ==
  (lpc = "primary" /\ gateway \in {"alwaysThrow", "alwaysTimeout"})
    ~> (lpc = "returned" /\ lret = TextFallback(ldesc))

\* C4: a query returned and persisted by the primary attempt obeys the Query
\* Model: a kind of the enumeration, at least one parameter, and for
\* getByRole a first parameter among the semantic roles; any other response
\* is a validation failure.
C4_InvalidResponseRejected ==
  (lpc = "returned" /\ lpath = "primary")
    => LET kind == Get(lquery, "query")
           params == Get(lquery, "params")
       IN /\ kind.t = "str"
          /\ kind.v \in QueryKinds
          /\ IsStringArray(params)
          /\ Len(params.v) >= 1
          /\ kind.v = "getByRole" => params.v[1].v \in AriaRoles

C6_UnparseableRetriedWithinBudget ==
  LET n == Len(attempts)
      allUnparseable(k) == \A i \in 1 .. k : attempts[i] = "unparseable"
  IN (maxRetries >= 0 /\ planRequests >= 1)
       => /\ (n = maxRetries + 1 /\ allUnparseable(n))
               => /\ epc = "raised"
                  /\ raises = 1
                  /\ planRequests = maxRetries + 1
                  /\ \E i \in DOMAIN eerr.msg : eerr.msg[i] = instruction
          /\ (n <= maxRetries /\ allUnparseable(n))
               => /\ epc \in {"plan", "resolving"}
                  /\ raises = 0
                  /\ planRequests = n + 1
          /\ (n = maxRetries + 1 /\ allUnparseable(maxRetries)
                /\ attempts[n] = "ok")
               => /\ epc = "done"
                  /\ raises = 0
                  /\ planRequests = maxRetries + 1

C6_Witness ==
  /\ epc = "raised"
  /\ maxRetries = 1
  /\ attempts = <<"unparseable", "unparseable">>
  /\ planRequests = 2

\* C7: once a valid plan is being resolved or dispatched, no further plan
\* request is sent to the gateway.
C7_NoPlanRequestAfterValidPlan ==
  [][epc = "resolving" => planRequests' = planRequests]_vars

\* C8: fill, selectOption and press are never called on the engine without
\* a value (null or missing).
C8_ValueRequiredBeforeDispatch ==
  \A i \in DOMAIN dispatched :
    dispatched[i].op \in {"fill", "selectOption", "press"}
      => dispatched[i].arg.t \notin {"null", "undef"}

\* C9: whenever execute has raised, maxRetries + 1 plan requests were made,
\* it raised once, and the error carries the instruction and the text of the
\* last underlying error.
C9_RaisedOnceAfterBudget ==
  epc = "raised"
    => /\ planRequests = maxRetries + 1
       /\ raises = 1
       /\ \E i \in DOMAIN eerr.msg : eerr.msg[i] = instruction
       /\ LET cause == ErrText(lastError)
              k == Len(eerr.msg) - Len(cause)
          IN /\ k >= 0
             /\ SubSeq(eerr.msg, k + 1, Len(eerr.msg)) = cause

\* C10: when the first plan request yields a valid plan whose action
\* succeeds, execute has sent one plan request, dispatched the verb of the
\* plan once, and has not retried.
C10_FirstPlanDispatchedOnce ==
  attempts = <<"ok">>
    => /\ epc = "done"
       /\ planRequests = 1
       /\ retries = 0
       /\ raises = 0
       /\ Len(dispatched) = 1
       /\ Get(plan, "action") = JStr("click") => dispatched[1].op = "click"
       /\ Get(plan, "action") = JStr("fill") => dispatched[1].op = "fill"

C10_Witness ==
  /\ attempts = <<"ok">>
  /\ epc = "done"
  /\ plan = ClickSubmit
  /\ Len(dispatched) = 1
  /\ dispatched[1].op = "click"

\* C11: saveSnapshot(description, q) followed by readSnapshots() on the same
\* file, none of the file system calls failing, yields under description a
\* query with the kind and the params of q.
C11_SaveThenReadYieldsQuery ==
  (roundTrip.done /\ roundTrip.out = "ok" /\ file.readable)
    => LET entry == Get(roundTrip.read, ToJSString(roundTrip.desc))
       IN /\ roundTrip.read.t = "obj"
          /\ Get(entry, "query") = Get(roundTrip.query, "query")
          /\ Get(entry, "params") = Get(roundTrip.query, "params")

\* C13: readSnapshots() always returns a mapping, and the empty mapping when
\* the file is missing, unreadable, not parseable, or parseable to something
\* that is not an object.
C13_ReadAlwaysYieldsMapping ==
  lastRead.done
    => LET from == lastRead.from
           parsed == JSONParse(from.text)
       IN /\ lastRead.val.t = "obj"
          /\ (\/ ~from.exists
              \/ ~from.readable
              \/ ~parsed.ok
              \/ parsed.val.t # "obj") => lastRead.val = EmptyObject

\* C15: when a writer's write step succeeds, the content of the file is the
\* mapping that writer read earlier plus its own entry, whatever another
\* writer wrote in between.
C15_WriteReplacesFile ==
  [][\A w \in Writers :
       (/\ writers[w].pc = "read"
        /\ writers'[w].pc = "done"
        /\ writers'[w].out = "ok")
         => file'.text =
              JSONStringify(SetProp(writers[w].snap,
                                    ToJSString(writers[w].desc),
                                    writers[w].query))]_vars

\* both writers have written with success and the entry of w1 is not in the
\* file
C15_Witness ==
  /\ \A w \in Writers : writers[w].pc = "done" /\ writers[w].out = "ok"
  /\ writers["w1"].desc # writers["w2"].desc
  /\ file.exists /\ file.readable
  /\ Get(ReadSnapshots(file), ToJSString(writers["w1"].desc)) = JUndef
  /\ Get(ReadSnapshots(file), ToJSString(writers["w2"].desc))
       = writers["w2"].query

\* C12: every value locate persists has the shape {"queryName": kind,
\* "params": [strings]}, and an entry of that shape under the description,
\* on an instance with a test-step wrapper and a page where it matches, makes
\* the lookup step return the locator of that kind.
C12_DocumentedEntryShape ==
  [][/\ (lpc # "returned" /\ lpc' = "returned" /\ wrote' = "ok")
          => LET entry == Get(JSONParse(file'.text).val, ToJSString(ldesc))
                 kind == Get(entry, "queryName")
             IN /\ kind.t = "str"
                /\ kind.v \in QueryKinds
                /\ IsStringArray(Get(entry, "params"))
     /\ (/\ lpc = "lookup"
         /\ lpc' # "lookup"
         /\ Get(ReadSnapshots(file), ToJSString(ldesc)) = ReadmeShapeEntry
         /\ hasTestInstance
         /\ page = "pageA")
          => /\ lpc' = "returned"
             /\ lret'.m = "getByRole"]_vars

\* C14: a cache write that fails is not raised: locate returns the locator
\* of the query it resolved, as it does when the write succeeds, and locate
\* never raises once it has called saveSnapshot.
C14_WriteFailureNotRaised ==
  /\ wrote # "none"
       => /\ lpc = "returned"
          /\ lerr = NoError
          /\ lpath \in {"primary", "degraded"}
          /\ lret = ExecuteTestingLibraryQuery(lquery).loc
  /\ lpc = "raised" => wrote = "none"

C14_Witness ==
  /\ lpc = "returned"
  /\ wrote = "failed"
  /\ lpath = "primary"
  /\ lquery = SubmitByRole
  /\ lret = Locator("getByRole", JStr("button"), NameOpt(JStr("Submit")))

\* C16: a backend call abandoned by the timer changes neither the cache nor
\* the call in progress nor the instance when it settles, and a locate call
\* in which the timer won returns what the degraded attempt or the literal
\* fallback gave.
C16_LateResultDiscarded ==
  [][/\ abandoned' < abandoned
          => UNCHANGED <<file, locVars, instVars, inflight>>
     /\ (timedOut' /\ lpc' = "returned")
          => lpath' \in {"degraded", "fallback"}]_vars

C16_Witness ==
  /\ timedOut
  /\ gateway = "any"
  /\ provider = "anthropic"
  /\ abandoned = 0
  /\ lpc = "returned"
  /\ lpath = "degraded"
  /\ wrote = "ok"

\* C17: every executePrompt call made on a constructed instance goes to the
\* backend of the provider the instance was constructed for.
C17_RoutedToOwnProvider == routedTo \in {"none", provider}

\* C18: the reference an action is dispatched on is the one locate returned
\* when the index of the plan is null or missing, its last match for -1, its
\* nth match for n >= 0, and the unmodified reference for an index below -1.
C18_IndexSelectsMatch ==
  [][(epc = "resolving" /\ Len(dispatched') = Len(dispatched) + 1)
       => LET index == Get(plan, "index")
              on == dispatched'[Len(dispatched')].on
          IN /\ index.t \in {"null", "undef"} => on = lret
             /\ index = JNum(-1)
                  => on = [lret EXCEPT !.sel = [k |-> "last", n |-> 0]]
             /\ (index.t = "num" /\ index.v >= 0)
                  => on = [lret EXCEPT !.sel = [k |-> "nth", n |-> index.v]]
             /\ (index.t = "num" /\ index.v < -1) => on = lret]_vars

C18_Witness ==
  /\ \E i \in DOMAIN dispatched : dispatched[i].on.sel = [k |-> "nth", n |-> 1]
  /\ epc = "raised"

C20_PersistedEqualsReturned ==
  (lpc = "returned" /\ lpath \in {"primary", "degraded"} /\ wrote = "ok")
    => LET entry == Get(JSONParse(file.text).val, ToJSString(ldesc))
       IN /\ file.exists
          /\ entry = lquery
          /\ ExecuteTestingLibraryQuery(entry).loc = lret

C20_Witness ==
  /\ lpc = "returned"
  /\ stale
  /\ lpath = "primary"
  /\ wrote = "ok"
  /\ lquery = ParagraphByRole
  /\ Get(JSONParse(file.text).val, ToJSString(ldesc)) = ParagraphByRole

\* C21: a locate call that ends in the literal fallback leaves the cache
\* file as it was: no step of a call that has resolved nothing changes the
\* file, the fallback step calls no cache write and persists no query, and
\* an entry found stale is still the entry of the description afterwards.
C21_FallbackLeavesCache ==
  [][/\ (/\ lpc \in {"lookup", "fetch", "primary", "degraded"}
         /\ lpath' \in {"none", "fallback"}) => file' = file
     /\ (lpath # "fallback" /\ lpath' = "fallback")
          => /\ wrote' = "none"
             /\ lquery' = JUndef
             /\ lret' = TextFallback(ldesc)
             /\ stale => Get(ReadSnapshots(file'), ToJSString(ldesc))
                           = Get(ReadSnapshots(file), ToJSString(ldesc))]_vars

C21_Witness ==
  /\ lpc = "returned"
  /\ lpath = "fallback"
  /\ stale
  /\ page = "pageB"
  /\ Get(ReadSnapshots(file), ToJSString(ldesc)) = SubmitByRole
  /\ wrote = "none"

\* C22: every query locate returns from a cache hit, from the primary
\* attempt or from the degraded attempt has a kind of the closed enumeration
\* and a non-empty list of parameters; only the literal fallback returns a
\* locator of a query that was not validated.
C22_ReturnedQueryValidated ==
  (lpc = "returned" /\ lpath \in {"hit", "primary", "degraded"})
    => /\ Get(lquery, "query").t = "str"
       /\ Get(lquery, "query").v \in QueryKinds
       /\ Get(lquery, "params").t = "arr"
       /\ Len(Get(lquery, "params").v) >= 1

C24_PromptBodyForDescription ==
  lpc = "primary"
    => /\ lprompt.about = ToJSString(ldesc)
       /\ lprompt.body = ExtractBodyContent(lhtml, ldesc)

\* C25: on an instance whose calls are routed to a backend, every
\* executePrompt call issues exactly one backend request, and when the first
\* locate call on the instance has returned without its timer having fired,
\* no backend request is outstanding.
C25_OneRequestPerInvocation ==
  /\ (gwCalls >= 1 /\ routedTo = provider) => sent.requests = 1
  /\ (lpc = "returned" /\ ~timedOut /\ calls = 1 /\ routedTo = provider)
       => /\ inflight = "none"
          /\ abandoned = 0
          /\ unawaited = 0

\* C26: one execute call dispatches its action to the automation engine at
\* most once, whatever fails and is retried.
C26_DispatchedAtMostOnce == Len(dispatched) <= 1

\* C27: a plan response that is JSON but not an Action Plan (no object, an
\* action outside the verb set, a targetDescription that is no string) is
\* rejected like unparseable text: no element resolution is started for it,
\* and the pass ends in the catch of the retry loop.
C27_ShapeViolationRejected ==
  [][LET shaped(v) ==
           /\ v.t = "obj"
           /\ Get(v, "action").t = "str"
           /\ VerbOperation(Get(v, "action").v) # "none"
           /\ Get(v, "targetDescription").t = "str"
     IN (epc = "plan" /\ epc' = "resolving") => shaped(plan')]_vars

\* C28: when useSimplifiedHtml is false, a failed primary attempt ends in the
\* literal fallback without a second gateway invocation; the degraded
\* attempt is made only when the option is true.
C28_DegradedOnlyWhenEnabled ==
  [][(lpc = "primary" /\ lpc' # "primary" /\ lpath' # "primary")
       => IF useSimplifiedHtml
          THEN lpc' = "degraded" /\ gwCalls' = gwCalls + 1
          ELSE /\ lpc' = "returned"
               /\ lpath' = "fallback"
               /\ gwCalls' = gwCalls]_vars

\* C29: on an instance whose calls are routed to a backend, the system
\* prompt given to executePrompt is part of the request sent: the one of the
\* primary attempt, the one of the degraded attempt, the one of the plan
\* request.
C29_SystemPromptForwarded ==
  routedTo = provider
    => /\ (lpc = "primary" /\ gwCalls = 1)
            => sent.system = PrimarySystemPrompt
       /\ (lpc = "degraded" /\ gwCalls = 2)
            => sent.system = DegradedSystemPrompt
       /\ epc = "plan" => sent.system = PlanSystemPrompt

\* C30: on an instance whose calls are routed to a backend, the request that
\* carries the plan prompt of execute does not ask for output of the
\* LocatorQuerySchema: an action plan {action, targetDescription, value,
\* index} is an answer the request permits.
C30_PlanRequestPermitsPlan ==
  LET permits(format, v) ==
        CASE format = "LocatorQuerySchema" -> LocatorQuerySchemaParse(v).ok
          [] format = "json_object" -> v.t = "obj"
          [] OTHER -> TRUE
  IN (epc = "plan" /\ routedTo = provider) => permits(sent.format, ClickSubmit)

\* C31: the cache lookup of locate is an exact match on the description: when
\* the mapping read from the file has no entry of its own under the
\* description, the lookup is a miss and locate goes on to fetch the
\* document, also for a description that names a property of
\* Object.prototype.
C31_NoOwnEntryIsMiss ==
  [][LET snapshots == ReadSnapshots(file)
     IN (/\ lpc = "lookup"
         /\ lpc' # "lookup"
         /\ snapshots.t = "obj"
         /\ ToJSString(ldesc) \notin DOMAIN snapshots.v)
          => /\ lpc' = "fetch"
             /\ ~stale'
             /\ lerr' = NoError]_vars

\* C32: a saveSnapshot(description, q) whose file system calls succeed
\* changes only the entry of description: every entry the file held under
\* another description before the call is in the file, unchanged, after it.
C32_OtherEntriesKept ==
  [][(roundTrip' # roundTrip /\ roundTrip'.out = "ok")
       => LET before == JSONParse(file.text)
              after == JSONParse(file'.text)
          IN (file.exists /\ before.ok /\ before.val.t = "obj")
               => \A k \in DOMAIN before.val.v \ {ToJSString(roundTrip'.desc)} :
                    /\ after.ok
                    /\ Get(after.val, k) = before.val.v[k]]_vars

\* C33: locate gives the same result with and without a testInstance: the
\* lookup step of every call ends the same way (hit with the same locator,
\* stale, miss, or the same error) on an instance that has the step wrapper
\* and on one that has none.
C33_SameWithOrWithoutStep ==
  lpc = "lookup"
    => LookupSnapshot(file, ldesc, TRUE, page)
         = LookupSnapshot(file, ldesc, FALSE, page)

\* C34 as stated: executeTestingLibraryQuery builds getByRole(params[0]),
\* with name params[1] when there is a second parameter, for getByRole; the
\* inexact getByText(params[0]) for getByText; getByLabel, getByPlaceholder,
\* getByTestId, getByAltText of params[0] for getByLabelText,
\* getByPlaceholderText, getByTestId, getByAltText; and the plain
\* getByText(params[0]) for every kind that is not one of these six names.
C34_KindMapsToEngineCall ==
  direct.fn = "executeTestingLibraryQuery"
    => LET kind == Get(direct.a, "query").v
           ps == Get(direct.a, "params")
           p0 == ElemAt(ps, 0)
       IN /\ direct.out.ok
          /\ direct.out.loc =
               CASE kind = "getByRole" ->
                      IF Len(ps.v) > 1
                      THEN Locator("getByRole", p0, NameOpt(ElemAt(ps, 1)))
                      ELSE Locator("getByRole", p0, NoOpt)
                 [] kind = "getByText" -> Locator("getByText", p0, InexactOpt)
                 [] kind = "getByLabelText" -> Locator("getByLabel", p0, NoOpt)
                 [] kind = "getByPlaceholderText" ->
                      Locator("getByPlaceholder", p0, NoOpt)
                 [] kind = "getByTestId" -> Locator("getByTestId", p0, NoOpt)
                 [] kind = "getByAltText" -> Locator("getByAltText", p0, NoOpt)
                 [] OTHER -> Locator("getByText", p0, NoOpt)

\* C34 amended: the same mapping, with the kind compared to the six names
\* without regard to letter case; the plain getByText(params[0]) is built
\* for a kind that is none of the six names in any letter case.
C34_KindMapsIgnoringCase ==
  direct.fn = "executeTestingLibraryQuery"
    => LET given == Get(direct.a, "query").v
           kind == IF given = "GETBYTEXT" THEN "getByText" ELSE given
           ps == Get(direct.a, "params")
           p0 == ElemAt(ps, 0)
       IN /\ direct.out.ok
          /\ direct.out.loc =
               CASE kind = "getByRole" ->
                      IF Len(ps.v) > 1
                      THEN Locator("getByRole", p0, NameOpt(ElemAt(ps, 1)))
                      ELSE Locator("getByRole", p0, NoOpt)
                 [] kind = "getByText" -> Locator("getByText", p0, InexactOpt)
                 [] kind = "getByLabelText" -> Locator("getByLabel", p0, NoOpt)
                 [] kind = "getByPlaceholderText" ->
                      Locator("getByPlaceholder", p0, NoOpt)
                 [] kind = "getByTestId" -> Locator("getByTestId", p0, NoOpt)
                 [] kind = "getByAltText" -> Locator("getByAltText", p0, NoOpt)
                 [] OTHER -> Locator("getByText", p0, NoOpt)

C34_Witness ==
  /\ direct.fn = "executeTestingLibraryQuery"
  /\ direct.a = Query("getByRole", <<JStr("button"), JStr("Submit")>>)
  /\ direct.out.loc
       = Locator("getByRole", JStr("button"), NameOpt(JStr("Submit")))

\* C35: executeAction calls, for each of the ten verbs, the engine operation
\* of that verb and no other (click, fill, check, uncheck, selectOption for
\* select, press, hover, dblclick, focus, tap), unless it refuses a fill,
\* select or press without value; for every other action it throws
\* "Unsupported action" and calls no engine operation.
C35_VerbToOwnOperation ==
  direct.fn = "executeAction"
    => LET verbs == {"click", "fill", "check", "uncheck", "select", "press",
                     "hover", "dblclick", "focus", "tap"}
           action == direct.a
           out == direct.out
           own == IF action = JStr("select") THEN "selectOption"
                  ELSE ToJSString(action)
       IN IF action.t = "str" /\ action.v \in verbs
          THEN \/ /\ out.kind = "call"
                  /\ out.op = own
                  /\ out.on = TextFallback(JStr("Submit"))
               \/ /\ out.kind = "throw"
                  /\ out.op = "none"
                  /\ action.v \in {"fill", "select", "press"}
                  /\ direct.b = JNull
          ELSE /\ out.kind = "throw"
               /\ out.op = "none"
               /\ out.err.msg = <<"Unsupported action", ToJSString(action)>>

C35_Witness ==
  /\ direct.fn = "executeAction"
  /\ direct.a = JStr("tap")
  /\ direct.out.kind = "call"
  /\ direct.out.op = "tap"

\* C36: once a locate call has returned, what it left pending changes
\* nothing and raises nothing: when a timer of timeoutPromise fires, an
\* abandoned backend call settles or a request whose promise was dropped
\* settles, the cache file and the stored document representation stay as
\* they are and no promise is rejected without handler.
C36_PendingChangesNothing ==
  [][(/\ lpc = "returned"
      /\ lpc' = lpc
      /\ \/ timers' # timers
         \/ abandoned' < abandoned
         \/ unawaited' < unawaited)
       => /\ UNCHANGED <<file, lastHtml, cachedBodyContent>>
          /\ unhandledRejection' = unhandledRejection]_vars

\* C37: for every integer maxRetries, zero and negative ones included, an
\* execute call that has read the page sends at least one plan request and
\* at most max(maxRetries, 0) + 1 of them, and what it raises is an Error
\* whose message contains the instruction.
C37_RequestsBoundedAndErrorNamesInstruction ==
  page # "closed"
    => LET budget == (IF maxRetries > 0 THEN maxRetries ELSE 0) + 1
       IN /\ planRequests <= budget
          /\ epc \in {"done", "raised"} => planRequests >= 1
          /\ epc = "raised"
               => /\ eerr.name = "Error"
                  /\ \E i \in 1 .. Len(eerr.msg) : eerr.msg[i] = instruction

====
